---- MODULE Spec2Model ----
(***************************************************************************)
(* Model of crawler/db.py: the upsert populator (populate_collection),     *)
(* the import recorder (create_import_record) and the collection           *)
(* snapshotter (copy_collection), acting on a MongoDB database.            *)
(*                                                                         *)
(* A collection is the sequence of its documents in natural (insertion)    *)
(* order; a document is [id |-> its _id, fields |-> its other fields].     *)
(* A collection that holds no document does not exist (MongoDB creates a   *)
(* collection on the first write, and nothing here deletes).               *)
(*                                                                         *)
(* Each database call is atomic: find_one_and_replace, insert_one and each *)
(* insert of insert_many either takes effect or raises and leaves no       *)
(* trace. A query without a sort meets the documents in natural order.     *)
(***************************************************************************)
EXTENDS Integers, Sequences, FiniteSets, TLC

\* ---------------------------------------------------------------- bounds
MaxDocs    == 2   \* documents a populated collection may hold
MaxBatch   == 2   \* records in one populate_collection call
MaxImports == 2   \* documents the imports collection may hold
MaxClones  == 1   \* snapshot collections the database may hold
MaxStored  == 3   \* documents the database may hold beside the centres
MaxMinute  == 1   \* the clock runs over minutes 0..MaxMinute
MaxSecond  == 1   \* ... seconds 0..MaxSecond of each minute
MaxMicro   == 1   \* ... sub-second instants 0..MaxMicro of each second

\* ------------------------------------------------------------- constants
COLLECTION_CENTRES  == "centres"
COLLECTION_IMPORTS  == "imports"
COLLECTION_SAMPLES  == "samples"
FIELD_PLATE_BARCODE == "plate_barcode"
FIELD_CENTRE_NAME   == "name"
FIELD_RESULT        == "Result"

\* ------------------------------------------------------------ the inputs
\* Field names of a sample record, each a possible filter field.
FieldNames == {FIELD_PLATE_BARCODE, FIELD_RESULT}

\* A record (Dict[str, str]) maps some of the field names to values. The
\* records the caller offers: two results for plate P1, a second plate, a
\* record without its Result and a record without its plate barcode.
Records ==
    { [plate_barcode |-> "P1", Result |-> "Positive"],
      [plate_barcode |-> "P1", Result |-> "Negative"],
      [plate_barcode |-> "P2", Result |-> "Negative"],
      [plate_barcode |-> "P1"],
      [Result |-> "Negative"] }

Batches == UNION { [1..n -> Records] : n \in 0..MaxBatch }

\* The calls of create_import_record the caller makes: a clean run, a run
\* with errors, and a centre that lacks its name.
ImportCalls ==
    { [centre |-> [name |-> "Alderley"], docs_inserted |-> 3,
       file_name |-> "AP-rna.csv", errors |-> <<>>],
      [centre |-> [name |-> "UK Biocentre"], docs_inserted |-> 0,
       file_name |-> "UK-rna.csv", errors |-> <<"error2", "error1">>],
      [centre |-> [prefix |-> "AP"], docs_inserted |-> 0,
       file_name |-> "AP-rna.csv", errors |-> <<>>] }

VARIABLES
    db,       \* collection name -> sequence of documents
    clock,    \* the wall clock: the current second
    issued,   \* number of create_import_record calls that returned
    last,     \* the most recent call, how it ended and, when it raised,
              \* at which document
    jobs      \* the populate_collection calls in progress side by side:
              \* their filter field, the collection they started on, each
              \* call's documents and position in its loop, and the callers
              \* in the order their upserts were committed

vars == <<db, clock, issued, last, jobs>>

\* --------------------------------------------------------------- the time
\* An instant of datetime.now(): the minute (all of %y%m%d_%H%M), the second
\* within it and the sub-second part. The clock variable holds the current
\* second; a call reads some instant within it.
Seconds == [minute : 0..MaxMinute, second : 0..MaxSecond]

Before(s, t) ==
    \/ s.minute < t.minute
    \/ s.minute = t.minute /\ s.second < t.second

Now(micro) == [minute |-> clock.minute, second |-> clock.second, micro |-> micro]

\* strftime('%y%m%d_%H%M'): the minute, nothing below it.
Strftime(t) == t.minute

\* Variant: isoformat() without timespec, the sub-second part is kept.
Isoformat_Micro(t) == <<t.minute, t.second, t.micro>>

\* isoformat(timespec="seconds"): down to the second, micro dropped.
Isoformat(t) == <<t.minute, t.second>>

\* A collection name is a tuple: <<c>> for the collection called c, and
\* <<c, m>> for "{c}_{m}", the snapshot of c stamped m.
Name(c) == <<c>>

ClonedName(c, m) == <<c, m>>

\* Collections the caller populates, and those it snapshots.
PopulateTargets == {COLLECTION_SAMPLES}
CopySources     == {COLLECTION_SAMPLES}

CollectionNames ==
    { Name(c) : c \in {COLLECTION_CENTRES, COLLECTION_IMPORTS, COLLECTION_SAMPLES} }
        \cup { ClonedName(c, m) : c \in CopySources, m \in 0..MaxMinute }

\* The centres collection is reference data loaded before this layer runs.
CentreDocs ==
    << [id |-> 1, fields |-> [name |-> "Alderley"]],
       [id |-> 2, fields |-> [name |-> "UK Biocentre"]] >>

Ids(coll) == { coll[i].id : i \in 1..Len(coll) }

\* A generated ObjectId: one no document of the collection carries. Nothing
\* deletes a document, so one above the greatest is new to the collection.
Fresh(coll) ==
    IF coll = <<>> THEN 1
    ELSE 1 + CHOOSE n \in Ids(coll) : \A m \in Ids(coll) : m <= n

\* Documents held outside the centres collection.
Stored(database) ==
    LET names == DOMAIN database \ {Name(COLLECTION_CENTRES)}
        RECURSIVE Sum(_)
        Sum(S) == IF S = {} THEN 0
                  ELSE LET n == CHOOSE x \in S : TRUE
                       IN  Len(database[n]) + Sum(S \ {n})
    IN  Sum(names)

\* ------------------------------------------------- the database's operations
\* Does the document match the query {f: v}?
Matches(doc, f, v) == f \in DOMAIN doc.fields /\ doc.fields[f] = v

\* collection.find({f: v}): the matching documents, in natural order.
Find(coll, f, v) == SelectSeq(coll, LAMBDA d : Matches(d, f, v))

\* Variant: the filter is dropped (an empty query), any document matches.
FirstMatch_AnyDocument(coll, f, v) == IF coll = <<>> THEN 0 ELSE 1

\* Position of the first document matching {f: v}, 0 when there is none.
FirstMatch(coll, f, v) ==
    IF \E i \in 1..Len(coll) : Matches(coll[i], f, v)
    THEN CHOOSE i \in 1..Len(coll) :
            /\ Matches(coll[i], f, v)
            /\ \A j \in 1..(i - 1) : ~Matches(coll[j], f, v)
    ELSE 0

\* Variant: insert_one in place of the upsert.
FindOneAndReplace_InsertOnly(coll, f, v, document) ==
    Append(coll, [id |-> Fresh(coll), fields |-> document])

\* Variant: upsert=False, a record that matches nothing is dropped.
FindOneAndReplace_NoUpsert(coll, f, v, document) ==
    LET hit == FirstMatch(coll, f, v)
    IN  IF hit = 0 THEN coll
        ELSE [coll EXCEPT ![hit] = [id |-> coll[hit].id, fields |-> document]]

\* Variant: an update with $set, the record's fields laid over the old ones.
FindOneAndReplace_Merge(coll, f, v, document) ==
    LET hit == FirstMatch(coll, f, v)
        old == coll[hit].fields
        laid == [g \in DOMAIN old \cup DOMAIN document |->
                    IF g \in DOMAIN document THEN document[g] ELSE old[g]]
    IN  IF hit = 0
        THEN Append(coll, [id |-> Fresh(coll), fields |-> document])
        ELSE [coll EXCEPT ![hit] = [id |-> coll[hit].id, fields |-> laid]]

\* Variant: every match is replaced, not the first one only.
FindOneAndReplace_EveryMatch(coll, f, v, document) ==
    IF FirstMatch(coll, f, v) = 0
    THEN Append(coll, [id |-> Fresh(coll), fields |-> document])
    ELSE [i \in 1..Len(coll) |->
            IF Matches(coll[i], f, v)
            THEN [id |-> coll[i].id, fields |-> document] ELSE coll[i]]

\* collection.find_one_and_replace({f: v}, document, upsert=True): the first
\* match is replaced by the document and keeps its _id and its place; with no
\* match the document is inserted under a generated _id.
\* Variant: the replacement is stored under a new identifier.
FindOneAndReplace_NewId(coll, f, v, document) ==
    LET hit == FirstMatch(coll, f, v)
    IN  IF hit = 0
        THEN Append(coll, [id |-> Fresh(coll), fields |-> document])
        ELSE [coll EXCEPT ![hit] = [id |-> Fresh(coll), fields |-> document]]

FindOneAndReplace(coll, f, v, document) ==
    LET hit == FirstMatch(coll, f, v)
    IN  IF hit = 0
        THEN Append(coll, [id |-> Fresh(coll), fields |-> document])
        ELSE [coll EXCEPT ![hit] = [id |-> coll[hit].id, fields |-> document]]

\* ------------------------------------------------------ populate_collection
\* The loop from record i on. failAt is the record whose write the server
\* rejects (0: none). The key lookup document[filter_field] comes before the
\* write, and any exception leaves the loop.
\* Variant: a rejected write is caught and the loop goes on.
RECURSIVE PopulateFrom_SkipFailed(_, _, _, _, _)
PopulateFrom_SkipFailed(coll, documents, filter_field, failAt, i) ==
    IF i > Len(documents)
    THEN [coll |-> coll, outcome |-> "ok", at |-> 0]
    ELSE IF filter_field \notin DOMAIN documents[i]
    THEN [coll |-> coll, outcome |-> "KeyError", at |-> i]
    ELSE IF failAt = i
    THEN PopulateFrom_SkipFailed(coll, documents, filter_field, failAt, i + 1)
    ELSE PopulateFrom_SkipFailed(
             FindOneAndReplace(coll, filter_field, documents[i][filter_field],
                               documents[i]),
             documents, filter_field, failAt, i + 1)

\* Variant: a record without the filter field is passed over.
RECURSIVE PopulateFrom_SkipKeyless(_, _, _, _, _)
PopulateFrom_SkipKeyless(coll, documents, filter_field, failAt, i) ==
    IF i > Len(documents)
    THEN [coll |-> coll, outcome |-> "ok", at |-> 0]
    ELSE IF filter_field \notin DOMAIN documents[i]
    THEN PopulateFrom_SkipKeyless(coll, documents, filter_field, failAt, i + 1)
    ELSE IF failAt = i
    THEN [coll |-> coll, outcome |-> "WriteError", at |-> i]
    ELSE PopulateFrom_SkipKeyless(
             FindOneAndReplace(coll, filter_field, documents[i][filter_field],
                               documents[i]),
             documents, filter_field, failAt, i + 1)

RECURSIVE PopulateFrom(_, _, _, _, _)
PopulateFrom(coll, documents, filter_field, failAt, i) ==
    IF i > Len(documents)
    THEN [coll |-> coll, outcome |-> "ok", at |-> 0]
    ELSE IF filter_field \notin DOMAIN documents[i]
    THEN [coll |-> coll, outcome |-> "KeyError", at |-> i]
    ELSE IF failAt = i
    THEN [coll |-> coll, outcome |-> "WriteError", at |-> i]
    ELSE PopulateFrom(
             FindOneAndReplace(coll, filter_field, documents[i][filter_field],
                               documents[i]),
             documents, filter_field, failAt, i + 1)

\* Variant: the batch is walked from its end.
PopulateRun_Reversed(coll, documents, filter_field, failAt) ==
    PopulateFrom(coll,
                 [i \in 1..Len(documents) |-> documents[Len(documents) + 1 - i]],
                 filter_field, failAt, 1)

\* The whole call on a collection: what it leaves there and how it ends.
PopulateRun(coll, documents, filter_field, failAt) ==
    PopulateFrom(coll, documents, filter_field, failAt, 1)

\* Variant: a populate that fails writes the import record itself.
populate_collection_Audited(collection, documents, filter_field, failAt) ==
    LET run == PopulateRun(db[Name(collection)], documents, filter_field, failAt)
        imports == db[Name(COLLECTION_IMPORTS)]
        audited == Append(imports, [id |-> Fresh(imports),
                                    fields |-> [errors |-> <<run.outcome>>]])
    IN  /\ Len(run.coll) <= MaxDocs
        /\ db' = [db EXCEPT ![Name(collection)] = run.coll,
                            ![Name(COLLECTION_IMPORTS)] =
                                IF run.outcome = "ok" THEN imports ELSE audited]
        /\ last' = [op |-> "populate_collection", outcome |-> run.outcome,
                    at |-> run.at]
        /\ UNCHANGED <<clock, issued, jobs>>

\* Variant: the upserts are applied to the snapshots of the collection too.
populate_collection_Through(collection, documents, filter_field, failAt) ==
    LET run == PopulateRun(db[Name(collection)], documents, filter_field, failAt)
    IN  /\ Len(run.coll) <= MaxDocs
        /\ db' = [n \in DOMAIN db |->
                    IF n = Name(collection) THEN run.coll
                    ELSE IF Len(n) = 2 /\ n[1] = collection /\ db[n] # <<>>
                         THEN PopulateRun(db[n], documents, filter_field, failAt).coll
                         ELSE db[n]]
        /\ last' = [op |-> "populate_collection", outcome |-> run.outcome,
                    at |-> run.at]
        /\ UNCHANGED <<clock, issued, jobs>>

populate_collection(collection, documents, filter_field, failAt) ==
    LET run == PopulateRun(db[Name(collection)], documents, filter_field, failAt)
    IN  /\ Len(run.coll) <= MaxDocs
        /\ db' = [db EXCEPT ![Name(collection)] = run.coll]
        /\ Stored(db') <= MaxStored
        /\ last' = [op |-> "populate_collection", outcome |-> run.outcome,
                    at |-> run.at]
        /\ UNCHANGED <<clock, issued, jobs>>

\* ----------------------------------------------------- create_import_record
\* The status document built at lines 125-131, now being the instant read.
StatusDoc(centre, docs_inserted, file_name, errors, now) ==
    [date              |-> Isoformat(now),
     centre_name       |-> centre[FIELD_CENTRE_NAME],
     csv_file_used     |-> file_name,
     number_of_records |-> docs_inserted,
     errors            |-> errors]

\* Variant: an upsert keyed on the document, an identical document is reused.
InsertOne_Upsert(coll, document) ==
    IF \E i \in 1..Len(coll) : coll[i].fields = document
    THEN [coll |-> coll,
          inserted_id |-> coll[CHOOSE i \in 1..Len(coll) :
                                   coll[i].fields = document].id]
    ELSE [coll |-> Append(coll, [id |-> Fresh(coll), fields |-> document]),
          inserted_id |-> Fresh(coll)]

\* insert_one(document): the document goes last, under the fresh _id, which
\* the result carries.
InsertOne(coll, document) ==
    [coll |-> Append(coll, [id |-> Fresh(coll), fields |-> document]),
     inserted_id |-> Fresh(coll)]

\* The whole call: what it leaves in the imports collection and what it
\* returns or raises. centre['name'] is looked up first (line 123).
ImportRun(coll, centre, docs_inserted, file_name, errors, now, fails) ==
    IF FIELD_CENTRE_NAME \notin DOMAIN centre
    THEN [coll |-> coll, outcome |-> "KeyError", inserted_id |-> 0]
    ELSE IF fails
    THEN [coll |-> coll, outcome |-> "WriteError", inserted_id |-> 0]
    ELSE LET result == InsertOne(coll,
                 StatusDoc(centre, docs_inserted, file_name, errors, now))
         IN  [coll |-> result.coll, outcome |-> "ok",
              inserted_id |-> result.inserted_id]

create_import_record(centre, docs_inserted, file_name, errors, micro, fails) ==
    LET run == ImportRun(db[Name(COLLECTION_IMPORTS)], centre,
                         docs_inserted, file_name, errors, Now(micro), fails)
    IN  /\ Len(run.coll) <= MaxImports
        /\ db' = [db EXCEPT ![Name(COLLECTION_IMPORTS)] = run.coll]
        /\ Stored(db') <= MaxStored
        /\ issued' = IF run.outcome = "ok" THEN issued + 1 ELSE issued
        /\ last' = [op |-> "create_import_record", outcome |-> run.outcome,
                    at |-> 0]
        /\ UNCHANGED <<clock, jobs>>

\* ---------------------------------------------------------- copy_collection
\* insert_many(docs), ordered: the documents go in one by one; a document
\* whose _id the target already holds, or a write the server rejects
\* (failAt), ends the insert with the documents before it left in place.
\* Variant: a failed insert is cleaned up, the target dropped.
RECURSIVE InsertManyFrom_Rollback(_, _, _, _)
InsertManyFrom_Rollback(target, docs, failAt, i) ==
    IF i > Len(docs)
    THEN [coll |-> target, outcome |-> "ok", at |-> 0]
    ELSE IF failAt = i
    THEN [coll |-> <<>>, outcome |-> "WriteError", at |-> i]
    ELSE IF docs[i].id \in Ids(target)
    THEN [coll |-> <<>>, outcome |-> "BulkWriteError", at |-> i]
    ELSE InsertManyFrom_Rollback(Append(target, docs[i]), docs, failAt, i + 1)

\* Variant: a document whose _id the target holds replaces the held one.
RECURSIVE InsertManyFrom_Overwrite(_, _, _, _)
InsertManyFrom_Overwrite(target, docs, failAt, i) ==
    IF i > Len(docs)
    THEN [coll |-> target, outcome |-> "ok", at |-> 0]
    ELSE IF failAt = i
    THEN [coll |-> target, outcome |-> "WriteError", at |-> i]
    ELSE IF docs[i].id \in Ids(target)
    THEN InsertManyFrom_Overwrite(
             [j \in 1..Len(target) |->
                 IF target[j].id = docs[i].id THEN docs[i] ELSE target[j]],
             docs, failAt, i + 1)
    ELSE InsertManyFrom_Overwrite(Append(target, docs[i]), docs, failAt, i + 1)

RECURSIVE InsertManyFrom(_, _, _, _)
InsertManyFrom(target, docs, failAt, i) ==
    IF i > Len(docs)
    THEN [coll |-> target, outcome |-> "ok", at |-> 0]
    ELSE IF failAt = i
    THEN [coll |-> target, outcome |-> "WriteError", at |-> i]
    ELSE IF docs[i].id \in Ids(target)
    THEN [coll |-> target, outcome |-> "BulkWriteError", at |-> i]
    ELSE InsertManyFrom(Append(target, docs[i]), docs, failAt, i + 1)

\* Variant: an empty list is accepted and inserts nothing.
InsertMany_AllowEmpty(target, docs, failAt) ==
    InsertManyFrom(target, docs, failAt, 1)

\* An empty list is refused by the driver before anything is sent.
InsertMany(target, docs, failAt) ==
    IF docs = <<>>
    THEN [coll |-> target, outcome |-> "TypeError", at |-> 0]
    ELSE InsertManyFrom(target, docs, failAt, 1)

\* The snapshot collections that exist (hold a document).
Clones(database) ==
    { n \in DOMAIN database : Len(n) = 2 /\ database[n] # <<>> }

\* The whole call on a database: the database it leaves and how it ends.
CopyRun(database, collection, now, failAt) ==
    LET cloned_collection == ClonedName(collection, Strftime(now))
        current_docs == database[Name(collection)]
        result == InsertMany(database[cloned_collection], current_docs, failAt)
    IN  [db |-> [database EXCEPT ![cloned_collection] = result.coll],
         outcome |-> result.outcome, at |-> result.at]

copy_collection(collection, micro, failAt) ==
    LET run == CopyRun(db, collection, Now(micro), failAt)
    IN  /\ db' = run.db
        /\ Cardinality(Clones(db')) <= MaxClones
        /\ Stored(db') <= MaxStored
        /\ last' = [op |-> "copy_collection", outcome |-> run.outcome,
                    at |-> run.at]
        /\ UNCHANGED <<clock, issued, jobs>>

\* ------------------------------------------------------------------ the clock
Tick == /\ \E t \in Seconds : Before(clock, t) /\ clock' = t
        /\ UNCHANGED <<db, issued, last, jobs>>

\* ------------------------------------------------------- the specification
\* Two callers populate the same collection at the same time.
Callers == {1, 2}

\* No populate_collection calls are running side by side.
NoJobs ==
    [filter_field |-> "none", base |-> <<>>,
     calls |-> [p \in Callers |-> [documents |-> <<>>, i |-> 1, phase |-> "idle"]],
     committed |-> <<>>]

Init ==
    /\ jobs = NoJobs
    /\ db = [n \in CollectionNames |->
                IF n = Name(COLLECTION_CENTRES) THEN CentreDocs ELSE <<>>]
    /\ clock = [minute |-> 0, second |-> 0]
    /\ issued = 0
    /\ last = [op |-> "none", outcome |-> "none", at |-> 0]

PopulateCollection ==
    \E collection \in PopulateTargets, documents \in Batches,
       filter_field \in FieldNames :
        \E failAt \in 0..Len(documents) :
            populate_collection(collection, documents, filter_field, failAt)

CreateImportRecord ==
    \E call \in ImportCalls, micro \in 0..MaxMicro, fails \in BOOLEAN :
        create_import_record(call.centre, call.docs_inserted, call.file_name,
                             call.errors, micro, fails)

CopyCollection ==
    \E collection \in CopySources, micro \in 0..MaxMicro :
        \E failAt \in 0..Len(db[Name(collection)]) :
            copy_collection(collection, micro, failAt)

Next == PopulateCollection \/ CreateImportRecord \/ CopyCollection \/ Tick

Spec == Init /\ [][Next]_vars

\* ------------------------------------------- populate_collection, concurrent
\* Two populate_collection calls with the same filter field run side by side
\* on the samples collection. Each call walks its documents in order; the
\* calls are interleaved between and inside their find_one_and_replace
\* calls. What the server does with one find_one_and_replace(upsert=True):
\* with a match, the replacement is one atomic write to the document; with
\* no match, the document is inserted, and without a unique index on the
\* filter field (this code creates none) another write can be committed
\* between the query that found no match and the insert.

\* The samples collection as earlier runs of the crawler can have left it.
InitialCollections ==
    { <<>>,
      <<[id |-> 1, fields |-> [plate_barcode |-> "P1", Result |-> "Positive"]]>>,
      <<[id |-> 1, fields |-> [plate_barcode |-> "P1", Result |-> "Positive"]],
        [id |-> 2, fields |-> [plate_barcode |-> "P2", Result |-> "Negative"]]>>,
      <<[id |-> 1, fields |-> [plate_barcode |-> "P1", Result |-> "Negative"]],
        [id |-> 2, fields |-> [plate_barcode |-> "P2", Result |-> "Negative"]]>> }

\* The non-empty batches whose records all carry the filter field.
KeyedBatches(filter_field) ==
    { R \in Batches : R # <<>> /\ \A i \in 1..Len(R) : filter_field \in DOMAIN R[i] }

InitConc ==
    /\ jobs = NoJobs
    /\ \E coll \in InitialCollections :
          db = [n \in CollectionNames |->
                   IF n = Name(COLLECTION_CENTRES) THEN CentreDocs
                   ELSE IF n = Name(COLLECTION_SAMPLES) THEN coll ELSE <<>>]
    /\ clock = [minute |-> 0, second |-> 0]
    /\ issued = 0
    /\ last = [op |-> "none", outcome |-> "none", at |-> 0]

\* Both callers enter populate_collection(samples, documents, filter_field).
StartCalls ==
    /\ jobs = NoJobs
    /\ \E filter_field \in FieldNames :
          \E R1 \in KeyedBatches(filter_field), R2 \in KeyedBatches(filter_field) :
              jobs' = [filter_field |-> filter_field,
                       base |-> db[Name(COLLECTION_SAMPLES)],
                       calls |-> [p \in Callers |->
                                    [documents |-> IF p = 1 THEN R1 ELSE R2,
                                     i |-> 1, phase |-> "call"]],
                       committed |-> <<>>]
    /\ UNCHANGED <<db, clock, issued, last>>

\* The document caller p is at, and the caller once that document is written.
Document(p) == jobs.calls[p].documents[jobs.calls[p].i]

Advanced(p) ==
    [jobs EXCEPT !.calls[p].i = @ + 1,
                 !.calls[p].phase =
                     IF jobs.calls[p].i = Len(jobs.calls[p].documents)
                     THEN "done" ELSE "call",
                 !.committed = Append(@, p)]

\* find_one_and_replace finds a match: one atomic replacement.
UpsertReplace(p) ==
    LET coll == db[Name(COLLECTION_SAMPLES)]
        f == jobs.filter_field
    IN  /\ jobs.calls[p].phase = "call"
        /\ FirstMatch(coll, f, Document(p)[f]) # 0
        /\ db' = [db EXCEPT ![Name(COLLECTION_SAMPLES)] =
                      FindOneAndReplace(coll, f, Document(p)[f], Document(p))]
        /\ jobs' = Advanced(p)
        /\ UNCHANGED <<clock, issued, last>>

\* Variant: without a match the document is dropped (no upsert).
UpsertMiss_Drop(p) ==
    LET coll == db[Name(COLLECTION_SAMPLES)]
        f == jobs.filter_field
    IN  /\ jobs.calls[p].phase = "call"
        /\ FirstMatch(coll, f, Document(p)[f]) = 0
        /\ jobs' = Advanced(p)
        /\ UNCHANGED <<db, clock, issued, last>>

\* find_one_and_replace finds no match: the upsert goes on to insert.
UpsertMiss(p) ==
    LET coll == db[Name(COLLECTION_SAMPLES)]
        f == jobs.filter_field
    IN  /\ jobs.calls[p].phase = "call"
        /\ FirstMatch(coll, f, Document(p)[f]) = 0
        /\ jobs' = [jobs EXCEPT !.calls[p].phase = "insert"]
        /\ UNCHANGED <<db, clock, issued, last>>

\* The insert of an upsert that found no match, under a generated _id.
UpsertInsert(p) ==
    LET coll == db[Name(COLLECTION_SAMPLES)]
    IN  /\ jobs.calls[p].phase = "insert"
        /\ db' = [db EXCEPT ![Name(COLLECTION_SAMPLES)] =
                      Append(coll, [id |-> Fresh(coll), fields |-> Document(p)])]
        /\ jobs' = Advanced(p)
        /\ UNCHANGED <<clock, issued, last>>

Replace == \E p \in Callers : UpsertReplace(p)
Miss == \E p \in Callers : UpsertMiss(p)
Insert == \E p \in Callers : UpsertInsert(p)

NextConc == StartCalls \/ Replace \/ Miss \/ Insert

SpecConc == InitConc /\ [][NextConc]_vars

\* ===================================================================
\* The properties. A property of populate_collection is stated for every
\* call the caller can make from every reachable state of the database:
\* the run is what the call leaves in the collection and how it ends.
\* ===================================================================
Samples == db[Name(COLLECTION_SAMPLES)]
Imports == db[Name(COLLECTION_IMPORTS)]

\* The filter-field values occurring in a batch.
Keys(documents, f) ==
    { documents[i][f] : i \in { j \in 1..Len(documents) : f \in DOMAIN documents[j] } }

\* Positions of the documents of a collection whose f-value is in K.
Holding(coll, f, K) ==
    { i \in 1..Len(coll) : f \in DOMAIN coll[i].fields /\ coll[i].fields[f] \in K }

Fields(coll) == [i \in 1..Len(coll) |-> coll[i].fields]

PopulatedOk == last.op = "populate_collection" /\ last.outcome = "ok"

\* C1 -- Idempotence: from every reachable collection state, for every batch
\* R and filter field f, calling populate_collection(collection, R, f) a
\* second time right after the first leaves the collection (documents,
\* identifiers and order) as the first call left it, and ends the same way.
C1_Idempotence ==
    \A c \in PopulateTargets, R \in Batches, f \in FieldNames :
        LET once  == PopulateRun(db[Name(c)], R, f, 0)
            twice == PopulateRun(once.coll, R, f, 0)
        IN  twice = once

\* A populate has returned and left two documents that share a plate
\* barcode (the collection was populated keyed on Result): a second call of
\* any batch keyed on plate_barcode meets duplicates of its key.
C1_Witness ==
    /\ PopulatedOk
    /\ Holding(Samples, FIELD_PLATE_BARCODE, {"P1"}) = {1, 2}
    /\ Samples[1].fields # Samples[2].fields

\* C2 (as claimed) -- Key uniqueness: after populate_collection(collection,
\* R, f) returns, the number of stored documents whose f-value appears in R
\* equals the number of distinct f-values in R, from every reachable state.
C2_KeyUniqueness ==
    \A c \in PopulateTargets, R \in Batches, f \in FieldNames :
        LET run == PopulateRun(db[Name(c)], R, f, 0)
        IN  run.outcome = "ok" =>
                Cardinality(Holding(run.coll, f, Keys(R, f)))
                    = Cardinality(Keys(R, f))

\* C2 (amended) -- after populate_collection(collection, R, f) returns, every
\* f-value k of R is held by at least one document and by no more documents
\* than held it before the call, or one if none did: the call creates no
\* duplicate. So when no f-value of R was held by two documents before the
\* call, the documents whose f-value appears in R are as many as the distinct
\* f-values of R.
C2_NoDuplicateCreated ==
    \A c \in PopulateTargets, R \in Batches, f \in FieldNames :
        LET coll == db[Name(c)]
            run  == PopulateRun(coll, R, f, 0)
            before(k) == Cardinality(Holding(coll, f, {k}))
            after(k)  == Cardinality(Holding(run.coll, f, {k}))
        IN  run.outcome = "ok" =>
                /\ \A k \in Keys(R, f) :
                      /\ after(k) >= 1
                      /\ after(k) = IF before(k) = 0 THEN 1 ELSE before(k)
                /\ (\A k \in Keys(R, f) : before(k) <= 1) =>
                      Cardinality(Holding(run.coll, f, Keys(R, f)))
                          = Cardinality(Keys(R, f))

\* A populate has returned leaving two plates, one document each, and both
\* with the same Result: batches keyed on plate_barcode meet unique keys,
\* batches keyed on Result meet a key held twice.
C2_Witness ==
    /\ PopulatedOk
    /\ Fields(Samples) = << [plate_barcode |-> "P1", Result |-> "Negative"],
                            [plate_barcode |-> "P2", Result |-> "Negative"] >>
\* The batch merged record by record, with no failure: what the claims
\* mean by merging records in order.
RECURSIVE MergeAll(_, _, _)
MergeAll(coll, documents, f) ==
    IF documents = <<>> THEN coll
    ELSE MergeAll(FindOneAndReplace(coll, f, Head(documents)[f], Head(documents)),
                  Tail(documents), f)

\* C3 -- Insert-vs-replace: when populate_collection processes a record r
\* whose filter-field value is already held, the first document holding it
\* becomes exactly r (its fields are r's fields, so every field r lacks is
\* gone and nothing is merged; it keeps its identifier and its place), every
\* other document is untouched and the document count does not change; when
\* the value is absent, exactly one document, with r's fields and a new
\* identifier, is added and nothing else changes.
C3_InsertVsReplace ==
    \A c \in PopulateTargets, r \in Records, f \in FieldNames :
        f \in DOMAIN r =>
            LET coll  == db[Name(c)]
                run   == PopulateRun(coll, <<r>>, f, 0)
                held  == Holding(coll, f, {r[f]})
            IN  /\ run.outcome = "ok"
                /\ IF held # {}
                   THEN /\ Len(run.coll) = Len(coll)
                        /\ \E i \in held :
                              /\ \A j \in held : i <= j
                              /\ run.coll[i].fields = r
                              /\ DOMAIN run.coll[i].fields = DOMAIN r
                              /\ run.coll[i].id = coll[i].id
                              /\ \A j \in 1..Len(coll) :
                                    j # i => run.coll[j] = coll[j]
                   ELSE /\ Len(run.coll) = Len(coll) + 1
                        /\ SubSeq(run.coll, 1, Len(coll)) = coll
                        /\ run.coll[Len(run.coll)].fields = r
                        /\ run.coll[Len(run.coll)].id \notin Ids(coll)

\* A populate has returned and the collection holds plate P1 with a Result:
\* the record [plate_barcode |-> "P1"] keyed on plate_barcode replaces a
\* document that has a field the record lacks, and a record of plate P2
\* finds its value absent.
C3_Witness ==
    /\ PopulatedOk
    /\ Len(Samples) = 1
    /\ Samples[1].fields = [plate_barcode |-> "P1", Result |-> "Positive"]

\* Position of the last record of the batch whose f-value is k.
LastWith(documents, f, k) ==
    CHOOSE i \in 1..Len(documents) :
        /\ f \in DOMAIN documents[i] /\ documents[i][f] = k
        /\ \A j \in (i + 1)..Len(documents) :
              ~(f \in DOMAIN documents[j] /\ documents[j][f] = k)

\* C4 -- Input order, last write wins within a batch: after a successful
\* populate_collection(collection, R, f), for every filter-field value k
\* occurring in R, the document a query on {f: k} finds first carries exactly
\* the fields of the LAST record of R whose f-value is k.
C4_LastWriteWins ==
    \A c \in PopulateTargets, R \in Batches, f \in FieldNames :
        LET run == PopulateRun(db[Name(c)], R, f, 0)
        IN  run.outcome = "ok" =>
                \A k \in Keys(R, f) :
                    /\ Find(run.coll, f, k) # <<>>
                    /\ Head(Find(run.coll, f, k)).fields = R[LastWith(R, f, k)]

\* A populate has returned and plate P1 is stored with Result Positive and
\* P2 behind it: the batch << P1 Negative, P1 alone >> keyed on
\* plate_barcode writes the same document twice, the last record staying.
C4_Witness ==
    /\ PopulatedOk
    /\ Fields(Samples) = << [plate_barcode |-> "P1", Result |-> "Positive"],
                            [plate_barcode |-> "P2", Result |-> "Negative"] >>
    /\ Imports = <<>>

\* A step of populate_collection: the clock stands still and the call on
\* record is a populate.
PopulateStep == last'.op = "populate_collection" /\ clock' = clock

\* Whatever the batch, the filter field and the way the call ends (also
\* when it fails part-way), a document whose f-value does not occur in R, or
\* that has no field f, is left as it was and where it was.
C5_DocumentsFrame ==
    \A c \in PopulateTargets, R \in Batches, f \in FieldNames :
        \A failAt \in 0..Len(R) :
            LET coll == db[Name(c)]
                run  == PopulateRun(coll, R, f, failAt)
            IN  /\ Len(run.coll) >= Len(coll)
                /\ \A i \in (1..Len(coll)) \ Holding(coll, f, Keys(R, f)) :
                      run.coll[i] = coll[i]

\* A populate step changes no collection but the populated one.
C5_CollectionsFrame ==
    PopulateStep =>
        /\ \A n \in DOMAIN db : n # Name(COLLECTION_SAMPLES) => db'[n] = db[n]
        /\ DOMAIN db' = DOMAIN db

\* C5 -- Frame of populate_collection: a call populate_collection(collection,
\* R, f) leaves unchanged every stored document whose f-value does not occur
\* in R, and leaves every other collection (imports, centres, snapshots)
\* unchanged.
C5_Frame == [](C5_DocumentsFrame) /\ [][C5_CollectionsFrame]_vars

\* The scenario of the claim: P1 and P2 were populated, P1 was populated
\* again with another Result; P2 is as it was, there are two documents, and
\* the imports collection holds a document the call left alone.
C5_Witness ==
    /\ PopulatedOk
    /\ Fields(Samples) = << [plate_barcode |-> "P1", Result |-> "Negative"],
                            [plate_barcode |-> "P2", Result |-> "Negative"] >>
    /\ Len(Imports) = 1
\* C6 (as claimed) -- Retrievability: every record merged via
\* populate_collection is retrievable afterward: for every record merged with
\* key value k under filter field f, a query on {f: k} returns that record.
C6_EveryMergedRetrievable ==
    \A c \in PopulateTargets, R \in Batches, f \in FieldNames :
        LET run == PopulateRun(db[Name(c)], R, f, 0)
        IN  run.outcome = "ok" =>
                \A i \in 1..Len(R) :
                    \E p \in 1..Len(run.coll) :
                        /\ Matches(run.coll[p], f, R[i][f])
                        /\ run.coll[p].fields = R[i]

\* The records a run has written: all of them, or those before the failure.
Written(run, documents) ==
    IF run.outcome = "ok" THEN 1..Len(documents) ELSE 1..(run.at - 1)

\* C6 (amended) -- a record merged via populate_collection is retrievable by
\* a query on {f: k} until a later upsert replaces its document, and an
\* upsert of a record with value k under field f replaces only the FIRST
\* document matching {f: k}; nothing is deleted. So after a call (complete
\* or failed part-way) every written record that no later written record of
\* the batch shares its key with is among the answers to {f: k}, and a
\* document stored before the call is changed only if it was the first
\* match of a written record's key.
C6_RetrievableUntilReplaced ==
    \A c \in PopulateTargets, R \in Batches, f \in FieldNames :
        \A failAt \in 0..Len(R) :
            LET coll == db[Name(c)]
                run  == PopulateRun(coll, R, f, failAt)
                W    == Written(run, R)
            IN  /\ \A i \in W :
                      (\A j \in W : j > i => R[j][f] # R[i][f]) =>
                          \E p \in 1..Len(run.coll) :
                              /\ Matches(run.coll[p], f, R[i][f])
                              /\ run.coll[p].fields = R[i]
                /\ Len(run.coll) >= Len(coll)
                /\ \A p \in 1..Len(coll) :
                      run.coll[p] # coll[p] =>
                          \E i \in W :
                              /\ Matches(coll[p], f, R[i][f])
                              /\ \A q \in 1..(p - 1) : ~Matches(coll[q], f, R[i][f])

\* A populate has returned and two documents hold plate P1, the second one
\* without a Result: a record of P1 keyed on plate_barcode replaces the first
\* and leaves the second retrievable.
C6_Witness ==
    /\ PopulatedOk
    /\ Fields(Samples) = << [plate_barcode |-> "P1", Result |-> "Negative"],
                            [plate_barcode |-> "P1"] >>

\* C7 -- Partial failure without rollback: if the write of the i-th record
\* of R is rejected (every record up to it has the filter field), the call
\* ends with the write error at record i, and the collection holds exactly
\* the result of merging the records before i in order: they stay merged,
\* record i leaves no trace and no record after i is written.
C7_PartialFailure ==
    \A c \in PopulateTargets, R \in Batches, f \in FieldNames :
        \A failAt \in 1..Len(R) :
            (\A i \in 1..failAt : f \in DOMAIN R[i]) =>
                LET coll == db[Name(c)]
                    run  == PopulateRun(coll, R, f, failAt)
                IN  /\ run.outcome = "WriteError"
                    /\ run.at = failAt
                    /\ run.coll = MergeAll(coll, SubSeq(R, 1, failAt - 1), f)

\* A populate of two records was rejected at its second record and the
\* collection holds the one document the first record left.
C7_Witness ==
    /\ last = [op |-> "populate_collection", outcome |-> "WriteError", at |-> 2]
    /\ Len(Samples) = 1
    /\ Stored(db) = 1

\* C8 -- Missing merge key: if some record of R lacks filter_field, and no
\* write before it is rejected, populate_collection ends with a key-lookup
\* error at the first such record, having written nothing for it: the
\* collection holds the result of merging the records before it, in order,
\* and no record after it is processed.
C8_MissingKey ==
    \A c \in PopulateTargets, R \in Batches, f \in FieldNames :
        \A failAt \in 0..Len(R) :
            LET coll    == db[Name(c)]
                run     == PopulateRun(coll, R, f, failAt)
                keyless == { i \in 1..Len(R) : f \notin DOMAIN R[i] }
            IN  \A m \in keyless :
                    ((\A i \in keyless : m <= i) /\ (failAt = 0 \/ failAt >= m)) =>
                        /\ run.outcome = "KeyError"
                        /\ run.at = m
                        /\ run.coll = MergeAll(coll, SubSeq(R, 1, m - 1), f)

\* A populate of two records ended with the key error at its second record
\* and the collection holds the two documents of the earlier calls and of
\* the first record.
C8_Witness ==
    /\ last = [op |-> "populate_collection", outcome |-> "KeyError", at |-> 2]
    /\ Len(Samples) = 2
\* The calls of create_import_record whose centre has a name.
NamedCalls == { call \in ImportCalls : FIELD_CENTRE_NAME \in DOMAIN call.centre }

\* C9 -- Audit completeness: for every successful call
\* create_import_record(imports, C, N, F, E), the imports collection holds
\* afterward exactly one document more, the documents it held being
\* unchanged; the new document has centre_name = C['name'],
\* number_of_records = N, csv_file_used = F, errors = E in the same order and
\* date = the instant the call read, cut to the second; and the returned
\* inserted_id is that document's identifier and no other document's.
C9_AuditCompleteness ==
    \A call \in NamedCalls, micro \in 0..MaxMicro :
        LET run == ImportRun(Imports, call.centre, call.docs_inserted,
                             call.file_name, call.errors, Now(micro), FALSE)
            new == run.coll[Len(run.coll)]
        IN  /\ run.outcome = "ok"
            /\ Len(run.coll) = Len(Imports) + 1
            /\ SubSeq(run.coll, 1, Len(Imports)) = Imports
            /\ DOMAIN new.fields = {"date", "centre_name", "csv_file_used",
                                    "number_of_records", "errors"}
            /\ new.fields.centre_name = call.centre.name
            /\ new.fields.number_of_records = call.docs_inserted
            /\ new.fields.csv_file_used = call.file_name
            /\ new.fields.errors = call.errors
            /\ new.fields.date = <<clock.minute, clock.second>>
            /\ new.id = run.inserted_id
            /\ run.inserted_id \notin Ids(Imports)

\* A create_import_record has returned after the clock moved on: the one
\* import document records the run with two errors, dated minute 0 second 1.
C9_Witness ==
    /\ last.op = "create_import_record" /\ last.outcome = "ok"
    /\ Len(Imports) = 1
    /\ Imports[1].fields.errors = <<"error2", "error1">>
    /\ Imports[1].fields.date = <<0, 1>>

\* The imports collection counts the calls that returned, and a call whose
\* centre has a name adds a document whatever the collection holds already.
C10_AlwaysInserts ==
    /\ issued = Len(Imports)
    /\ \A call \in NamedCalls, micro \in 0..MaxMicro :
          Len(ImportRun(Imports, call.centre, call.docs_inserted, call.file_name,
                        call.errors, Now(micro), FALSE).coll) = Len(Imports) + 1

\* No step of any operation changes or removes an import document, and the
\* collection grows by one exactly in the steps where a call returns.
C10_ImportsKept ==
    /\ Len(Imports') >= Len(Imports)
    /\ SubSeq(Imports', 1, Len(Imports)) = Imports
    /\ Len(Imports') - Len(Imports) = issued' - issued
    /\ issued' - issued \in {0, 1}

\* C10 -- The audit trail is append-only: over any sequence of operations an
\* import document once inserted is never changed or deleted, each
\* successful create_import_record inserts a new document (never an upsert),
\* also when repeated with the same arguments within the same second, and
\* the number of import documents equals the number of successful calls.
C10_AppendOnly == [](C10_AlwaysInserts) /\ [][C10_ImportsKept]_vars

\* Two calls with the same arguments in the same second have left two
\* documents with the same fields and different identifiers.
C10_Witness ==
    /\ last.op = "create_import_record" /\ last.outcome = "ok"
    /\ issued = 2
    /\ Len(Imports) = 2
    /\ Imports[1].fields = Imports[2].fields
    /\ Imports[1].id # Imports[2].id
\* A populate step, however it ends, writes no import document.
C11_PopulateWritesNoAudit ==
    PopulateStep => (Imports' = Imports /\ issued' = issued)

\* The imports collection changes only in a step where a
\* create_import_record call returns.
C11_OnlyExplicitCall ==
    Imports' # Imports =>
        /\ last'.op = "create_import_record" /\ last'.outcome = "ok"
        /\ issued' = issued + 1

\* After a populate, whether it returned or raised, a create_import_record
\* call (centre with a name, write accepted) inserts its record, the errors
\* the caller passes included.
C11_InsertsAfterAnyPopulate ==
    last.op = "populate_collection" =>
        \A call \in NamedCalls, micro \in 0..MaxMicro :
            LET run == ImportRun(Imports, call.centre, call.docs_inserted,
                                 call.file_name, call.errors, Now(micro), FALSE)
            IN  /\ run.outcome = "ok"
                /\ Len(run.coll) = Len(Imports) + 1
                /\ run.coll[Len(run.coll)].fields.errors = call.errors

\* C11 -- The audit write is decoupled from the populate outcome:
\* populate_collection, whether it completes or fails part-way, never writes
\* an import record; an import document appears only through an explicit
\* create_import_record call, and that call inserts its record whether the
\* preceding populate succeeded or failed.
C11_AuditDecoupled ==
    /\ [](C11_InsertsAfterAnyPopulate)
    /\ [][C11_PopulateWritesNoAudit /\ C11_OnlyExplicitCall]_vars

\* A populate has failed at its second record, leaving the first merged,
\* and the imports collection still holds just the one document of the one
\* create_import_record call made before it.
C11_Witness ==
    /\ last.op = "populate_collection" /\ last.outcome = "WriteError"
    /\ last.at = 2
    /\ Len(Samples) = 1
    /\ Len(Imports) = 1 /\ issued = 1
\* C12 -- Snapshot fidelity, as stated: for every collection with documents
\* D, in every reachable database state (D empty included, and a snapshot of
\* the same source already taken in the same minute included), a call
\* copy_collection(database, collection) whose insert is not interrupted
\* returns with a collection named {name}_{YYMMDD_HHMM} holding exactly D
\* (same documents, same identifiers) and the source unchanged.
C12_SnapshotFidelity ==
    \A c \in CopySources, micro \in 0..MaxMicro :
        LET run == CopyRun(db, c, Now(micro), 0)
            D == db[Name(c)]
        IN  /\ run.outcome = "ok"
            /\ run.db[ClonedName(c, clock.minute)] = D
            /\ run.db[Name(c)] = D

\* Snapshots of a source collection.
SnapshotsOf(c) == { n \in Clones(db) : n[1] = c }

\* C13 -- Snapshot independence: once copy_collection has produced a
\* snapshot of a source collection, a populate_collection call on the source,
\* inserting or replacing, complete or failed part-way, leaves every snapshot
\* collection as it was; so does any sequence of such calls.
C13_SnapshotIndependence ==
    [][PopulateStep => \A c \in CopySources, m \in 0..MaxMinute :
                           db'[ClonedName(c, m)] = db[ClonedName(c, m)]]_vars

\* A snapshot exists and the source has since been populated away from it: a
\* document the snapshot holds has other fields in the source.
C13_Witness ==
    /\ PopulatedOk
    /\ \E n \in SnapshotsOf(COLLECTION_SAMPLES) :
          \E i \in 1..Len(db[n]) :
              /\ i <= Len(Samples)
              /\ Samples[i].id = db[n][i].id
              /\ Samples[i].fields # db[n][i].fields
\* Both concurrent calls have returned.
Done == \A p \in Callers : jobs.calls[p].phase = "done"

\* The filter-field values of a concurrent call's documents.
CallKeys(p) == Keys(jobs.calls[p].documents, jobs.filter_field)

\* The collection left by running the two calls one after the other on the
\* collection the concurrent calls started on.
OneAfterTheOther(first, second) ==
    PopulateRun(PopulateRun(jobs.base, jobs.calls[first].documents,
                            jobs.filter_field, 0).coll,
                jobs.calls[second].documents, jobs.filter_field, 0).coll

\* Two outcomes of populating the same collection have the same contents:
\* the documents held at the start are the same, identifiers included, and
\* the documents inserted since are the same records, each as many times;
\* the identifiers generated for them and their order may differ.
SameContents(a, b) ==
    LET n == Len(jobs.base)
    IN  /\ Len(a) = Len(b)
        /\ Len(a) >= n
        /\ SubSeq(a, 1, n) = SubSeq(b, 1, n)
        /\ \A r \in Records :
               Cardinality({ i \in (n + 1)..Len(a) : a[i].fields = r })
                   = Cardinality({ i \in (n + 1)..Len(b) : b[i].fields = r })

\* C14 -- Concurrent populate batches on disjoint keys are safe: when two
\* populate_collection calls with the same filter field run concurrently on
\* the same collection and their records share no filter-field value, then
\* under every interleaving the final contents of the collection are those
\* of running the two calls one after the other, in either order.
C14_DisjointKeysSafe ==
    (Done /\ CallKeys(1) \cap CallKeys(2) = {}) =>
        /\ SameContents(Samples, OneAfterTheOther(1, 2))
        /\ SameContents(Samples, OneAfterTheOther(2, 1))

\* Two calls of two documents each on disjoint keys have returned, their
\* upserts committed alternately, with at least one document inserted and
\* one replaced.
C14_Witness ==
    /\ Done /\ CallKeys(1) \cap CallKeys(2) = {}
    /\ jobs.committed = <<1, 2, 1, 2>>
    /\ Len(Samples) > Len(jobs.base)
    /\ Len(Samples) < Len(jobs.base) + 4

\* The record written by the n-th committed upsert of the concurrent calls.
Committed(n) ==
    LET p == jobs.committed[n]
    IN  jobs.calls[p].documents[Cardinality({ m \in 1..n : jobs.committed[m] = p })]

\* The record of the upsert for value k that was committed last.
LastCommitted(k) ==
    LET hits == { n \in 1..Len(jobs.committed) : Committed(n)[jobs.filter_field] = k }
    IN  Committed(CHOOSE n \in hits : \A m \in hits : m <= n)

\* C15 -- Concurrent populate batches on the same key, last committed write
\* wins: when two concurrent populate_collection calls both contain a record
\* with filter-field value k (k held by at most one document when they
\* start), then under every interleaving the collection ends with exactly
\* one document for k, and it is the record of the upsert for k committed
\* last.
C15_LastCommittedWins ==
    Done =>
        \A k \in CallKeys(1) \cap CallKeys(2) :
            Cardinality(Holding(jobs.base, jobs.filter_field, {k})) <= 1 =>
                /\ Cardinality(Holding(Samples, jobs.filter_field, {k})) = 1
                /\ \A i \in Holding(Samples, jobs.filter_field, {k}) :
                       Samples[i].fields = LastCommitted(k)

\* C16 -- Snapshot failure: when the bulk insert of copy_collection fails at
\* one of the documents, the call ends with that error; nothing is cleaned
\* up, so the target holds what it held plus the documents before the failed
\* one, fewer than the source has; the source and every other collection are
\* unchanged.
C16_SnapshotFailure ==
    \A c \in CopySources, micro \in 0..MaxMicro :
        LET D == db[Name(c)]
            n == ClonedName(c, clock.minute)
        IN  \A failAt \in 1..Len(D) :
                LET run == CopyRun(db, c, Now(micro), failAt)
                IN  /\ run.outcome \in {"WriteError", "BulkWriteError"}
                    /\ run.at \in 1..failAt
                    /\ run.db[n] = db[n] \o SubSeq(D, 1, run.at - 1)
                    /\ run.at - 1 < Len(D)
                    /\ run.db[Name(c)] = D
                    /\ \A o \in DOMAIN db \ {n} : run.db[o] = db[o]

\* A copy of a source of two documents has failed at the second: the
\* snapshot is left holding the first document only.
C16_Witness ==
    /\ last.op = "copy_collection" /\ last.outcome = "WriteError" /\ last.at = 2
    /\ Len(Samples) = 2
    /\ \E n \in SnapshotsOf(COLLECTION_SAMPLES) : db[n] = <<Samples[1]>>

\* C17 -- Same-minute snapshot collision: a copy_collection of a source
\* whose snapshot of the current minute already exists targets that
\* snapshot, fails with the duplicate-identifier error at the first document
\* and leaves every document of the snapshot, and the whole database, as it
\* was, whatever was populated into the source in between.
C17_SameMinuteCollision ==
    \A c \in CopySources, micro \in 0..MaxMicro :
        db[ClonedName(c, clock.minute)] # <<>> =>
            /\ LET run == CopyRun(db, c, Now(micro), 0)
               IN  /\ run.outcome = "BulkWriteError" /\ run.at = 1
                   /\ run.db = db
            /\ \A failAt \in 1..MaxDocs :
                   LET run == CopyRun(db, c, Now(micro), failAt)
                   IN  /\ run.outcome \in {"WriteError", "BulkWriteError"}
                       /\ run.db = db

\* A second copy within the minute has failed on the first document, after
\* the source was populated away from the snapshot, which is still there.
C17_Witness ==
    /\ last.op = "copy_collection" /\ last.outcome = "BulkWriteError"
    /\ last.at = 1
    /\ db[ClonedName(COLLECTION_SAMPLES, clock.minute)] # <<>>
    /\ db[ClonedName(COLLECTION_SAMPLES, clock.minute)] # Samples

\* C18 -- Empty source snapshot: copy_collection on a source that holds no
\* documents hands an empty list to the bulk insert, which refuses it with an
\* error the caller sees; no snapshot collection is created and the source
\* stays empty.
C18_EmptySource ==
    \A c \in CopySources, micro \in 0..MaxMicro, failAt \in 0..MaxDocs :
        db[Name(c)] = <<>> =>
            LET run == CopyRun(db, c, Now(micro), failAt)
            IN  /\ run.outcome = "TypeError"
                /\ run.db = db
                /\ run.db[ClonedName(c, clock.minute)] = <<>>
                /\ run.db[Name(c)] = <<>>

\* A copy of the empty samples collection has just been refused, and the
\* database holds no snapshot.
C18_Witness ==
    /\ last.op = "copy_collection" /\ last.outcome = "TypeError"
    /\ Samples = <<>>
    /\ Clones(db) = {}
\* The identifier a query on {f: k} finds in a collection (0 when none).
IdOf(coll, f, k) ==
    IF FirstMatch(coll, f, k) = 0 THEN 0 ELSE coll[FirstMatch(coll, f, k)].id

\* C19 -- Identifier stability, as stated: across any sequence of
\* populate_collection calls, the identifier attached to a filter-field value
\* never changes once assigned. Here for two calls in a row: the values
\* merged by the first call keyed on f1 are found, after any second call that
\* leaves them held, under the identifier they had after the first.
C19_IdentifierNeverChanges ==
    \A c \in PopulateTargets, R1 \in Batches, R2 \in Batches,
       f1 \in FieldNames, f2 \in FieldNames :
        LET run1 == PopulateRun(db[Name(c)], R1, f1, 0)
            run2 == PopulateRun(run1.coll, R2, f2, 0)
        IN  (run1.outcome = "ok" /\ run2.outcome = "ok") =>
                \A k \in Keys(R1, f1) :
                    IdOf(run2.coll, f1, k) # 0 =>
                        IdOf(run2.coll, f1, k) = IdOf(run1.coll, f1, k)

\* Whatever the batch, the filter field f and the way the call ends, every
\* stored document keeps its identifier and its place, the documents added
\* get identifiers not in use, and every f-value held before the call is
\* found under the identifier it was found under before.
C19_ReplaceKeepsId ==
    \A c \in PopulateTargets, R \in Batches, f \in FieldNames :
        \A failAt \in 0..Len(R) :
            LET coll == db[Name(c)]
                run == PopulateRun(coll, R, f, failAt)
            IN  /\ Len(run.coll) >= Len(coll)
                /\ \A i \in 1..Len(coll) : run.coll[i].id = coll[i].id
                /\ \A i \in (Len(coll) + 1)..Len(run.coll) :
                       run.coll[i].id \notin Ids(coll)
                /\ \A i \in 1..Len(coll) :
                       f \in DOMAIN coll[i].fields =>
                           IdOf(run.coll, f, coll[i].fields[f])
                               = IdOf(coll, f, coll[i].fields[f])

\* Every document of a snapshot has, at the same place in the live source
\* collection, a document with the same identifier.
C19_SnapshotIds ==
    \A c \in CopySources : \A n \in SnapshotsOf(c) :
        \A i \in 1..Len(db[n]) :
            /\ i <= Len(db[Name(c)])
            /\ db[Name(c)][i].id = db[n][i].id

\* C19 (amended) -- a replacement by populate_collection keeps the stored
\* document's identifier and place; across calls keyed on the same filter
\* field f the identifier under which an f-value is found never changes once
\* assigned; and a snapshot taken earlier refers to identifiers the live
\* collection still holds, at the same places.
C19_IdentifierStability == C19_ReplaceKeepsId /\ C19_SnapshotIds

\* A snapshot of one document was taken; since then that document was
\* replaced and another one inserted: the live collection holds the
\* snapshot's identifier with other fields, and one more.
C19_Witness ==
    /\ PopulatedOk
    /\ Len(Samples) = 2
    /\ \E n \in SnapshotsOf(COLLECTION_SAMPLES) :
          /\ Len(db[n]) = 1
          /\ db[n][1].id = Samples[1].id
          /\ db[n][1].fields # Samples[1].fields
====
